---- MODULE Spec2Model ----
(***************************************************************************)
(* SMS reminder: the reminder lifecycle and delivery pipeline.             *)
(*                                                                         *)
(*   intake      POST /api/schedule    (src/unnamed/part_000)              *)
(*   delivery    POST /api/send-sms    (src/unnamed/part_001)              *)
(*   channel     sendSMS               (src/src/lib/twilio.ts)             *)
(*   scheduler   scheduleReminderJob   (src/unnamed/part_002, 440-501)     *)
(*                                                                         *)
(* Every `await` of a route handler is a point where another request may   *)
(* run, so each handler is cut into one action per awaited call.           *)
(***************************************************************************)
EXTENDS Integers, Sequences, FiniteSets, Bags, TLC

\* ------------------------------------------------------------------ bounds
MaxReminders   == 1    \* reminders created by intake
MaxWorkers     == 2    \* delivery-callback invocations in flight at once
MaxInvocations == 4    \* delivery-callback invocations made in all
MaxStoreFaults == 1    \* store calls that throw
MaxNow         == 2    \* the clock stops here
MaxCalls       == 11   \* rate-limited calls answered by the limiter
MaxPosts       == 1    \* requests to the delivery callback that QStash did not sign

\* --------------------------------------------------------------- constants
MAX_RETRIES    == 3    \* part_001:6
QSTASH_RETRIES == 3    \* part_002:485, publishJSON({retries: 3})
MAX_MESSAGE_LENGTH == 500  \* part_002:506
RATE_LIMIT     == 10   \* part_003:20, slidingWindow(10, '1 h')
Hour           == 2    \* '1 h', in ticks of `now`
Year           == 2    \* what setFullYear(getFullYear() + 1) adds, in ticks of `now`

None        == "none"   \* a null string column
NoTime      == -1       \* a null DateTime column
NoMessageId == <<>>     \* a null message id
InvalidDate == -2       \* new Date(val) when val does not parse: getTime() is NaN

\* process.env as read by sendSMS / getTwilioClient / scheduleReminderJob /
\* getQStashClient.  One record per deployment; it never changes at run time.
Envs ==
  [ fromNumber  : BOOLEAN,                        \* TWILIO_PHONE_NUMBER
    nodeEnv     : {"development", "production"},  \* NODE_ENV
    twilioCreds : BOOLEAN,                        \* TWILIO_ACCOUNT_SID && TWILIO_AUTH_TOKEN
    appUrl      : BOOLEAN,                        \* NEXT_PUBLIC_APP_URL
    qstashToken : BOOLEAN ]                       \* QSTASH_TOKEN

\* What client.messages.create does: resolves with a sid, or rejects with an
\* error carrying a numeric code, or with one carrying none (a timeout).
\* the allow-list with one more code on it
retryableCodes_Plus == {20003, 20429, 30002, 30003, 30004, 30005, 30006, 30008}
\* twilio.ts:64
retryableCodes == {20003, 20429, 30002, 30003, 30004, 30006, 30008}
Resolved == -1         \* the promise resolved
NoCode   == 0          \* rejected, typeof error.code is not 'number'
TransportOutcomes == {Resolved, 20429, NoCode}

\* error messages
ErrNoFrom   == "Twilio phone number not configured"
ErrNoCreds  == "Twilio credentials not configured"
ErrNoAppUrl == "App URL not configured for QStash callbacks"
ErrNoToken  == "QStash token not configured"
ErrPublish  == "Failed to schedule reminder"
ErrorMessage(code) == IF code = NoCode THEN "Unknown Twilio error" ELSE ToString(code)

VARIABLES
  env,          \* process.env
  now,          \* Date.now()
  reminders,    \* the reminder table: a sequence, id = index
  jobs,         \* QStash: per reminder id, the published job
  twilioSeq,    \* Twilio: sids handed out so far
  req,          \* the intake request on its way to the store: rate limit
                \* and validation
  intake,       \* the intake request being served, from the store on
  limiter,      \* Upstash Redis: per key, the times of the calls counted
  asked,        \* per client and time: the calls the limiter allowed (ok)
                \* and turned away (no)
  rateResponse, \* what the last rate-limited call was answered, and how
                \* many calls the limiter has answered so far
  inv,          \* the delivery-callback invocations in flight: a bag of
                \* their local states
  response,     \* the response the delivery callback returned last
  storeFaults,  \* store calls that threw so far
  sendCalls,    \* per reminder id: calls of sendSMS made by the handler
  sendOks,      \* per reminder id: calls of sendSMS that returned success
  sentWrites,   \* per reminder id: updates that wrote status SENT
  smsCall,      \* the last call of sendSMS made on its own: arguments,
                \* what the transport did, result
  jobCall,      \* the last call of scheduleReminderJob made on its own
  posts         \* requests to POST /api/send-sms that QStash did not sign

vars == <<env, now, req, limiter, asked, rateResponse, reminders, jobs, twilioSeq, intake, inv, response,
          storeFaults, sendCalls, sendOks, sentWrites, smsCall, jobCall, posts>>

Ids == 1..Len(reminders)

\* ------------------------------------------------------------------ store
\* prisma.reminder.create: the row as intake writes it; the columns intake
\* does not name take the schema's defaults.
NewReminder ==
  [ status          |-> "SCHEDULED",
    retryCount      |-> 0,
    lastError       |-> None,
    twilioMessageId |-> NoMessageId,
    sentAt          |-> NoTime ]

\* prisma.reminder.update({where: {id}, data}): overwrites the named columns
\* of the row, whatever the row holds at that moment.
Update(id, data) ==
  [reminders EXCEPT ![id] =
     [f \in DOMAIN @ |-> IF f \in DOMAIN data THEN data[f] ELSE @[f]]]

RECURSIVE SumDeliveries(_)
SumDeliveries(js) == IF js = <<>> THEN 0 ELSE Head(js).deliveries + SumDeliveries(Tail(js))

\* the job published along with the create
NoJob_Published == [enqueued |-> TRUE, deliveries |-> 0, acked |-> FALSE]
\* QStash holds no job for a reminder until intake publishes one
NoJob == [enqueued |-> FALSE, deliveries |-> 0, acked |-> FALSE]

\* ---------------------------------------------------------------- channel
sendSMS(e, outcome, sid, t) ==
  IF ~e.fromNumber
    THEN [success |-> FALSE, messageId |-> NoMessageId, error |-> ErrNoFrom, retryable |-> FALSE]
  ELSE IF e.nodeEnv = "development"
    THEN [success |-> TRUE, messageId |-> <<"dev", t>>, error |-> None, retryable |-> FALSE]
  ELSE IF ~e.twilioCreds
    THEN [success |-> FALSE, messageId |-> NoMessageId, error |-> ErrNoCreds, retryable |-> FALSE]
  ELSE IF outcome = Resolved
    THEN [success |-> TRUE, messageId |-> <<"SM", sid>>, error |-> None, retryable |-> FALSE]
  ELSE [success |-> FALSE, messageId |-> NoMessageId, error |-> ErrorMessage(outcome),
        retryable |-> outcome \in retryableCodes]

\* TRUE when sendSMS gets as far as client.messages.create
CallsTransport(e) == e.fromNumber /\ e.nodeEnv # "development" /\ e.twilioCreds

\* -------------------------------------------------------------- scheduler
\* scheduleReminderJob(reminderId, runAt); published is what publishJSON did.
scheduleReminderJob(e, published) ==
  IF ~e.appUrl THEN [success |-> FALSE, error |-> ErrNoAppUrl]
  ELSE IF ~e.qstashToken THEN [success |-> FALSE, error |-> ErrNoToken]
  ELSE IF ~published THEN [success |-> FALSE, error |-> ErrPublish]
  ELSE [success |-> TRUE, error |-> None]

\* ------------------------------------------------------------------- Init
NoResult   == [success |-> FALSE, messageId |-> NoMessageId, error |-> None, retryable |-> FALSE]
NoSnapshot == [NewReminder EXCEPT !.status = None]
NoResponse == [rid |-> 0, code |-> 0, body |-> None]
\* runAtDate.toISOString(): the UTC rendering of an instant
toISOString(date) == <<"Z", date>>
NoISO == <<>>
\* POST /api/schedule from the create on: its locals (rid is reminder.id,
\* runAt is runAtDate, result is scheduleResult) and its response
IdleIntake == [pc |-> "idle", rid |-> 0, runAt |-> NoTime,
               result |-> [success |-> FALSE, error |-> None],
               response |-> 0, reminderId |-> 0, scheduledFor |-> NoISO]
NewWorker(id) == [pc |-> "find", rid |-> id, reminder |-> NoSnapshot, result |-> NoResult,
                  qstash |-> TRUE]
\* the invocation for a request that did not come from QStash
ForeignWorker(id) == [NewWorker(id) EXCEPT !.qstash = FALSE]
\* ------------------------------------------------------------ rate limit
\* the routes behind checkRateLimit, the client addresses getClientIP
\* gives, and the callers: one address on both routes, another on one
Types      == {"stt", "schedule"}
Identities == {"10.0.0.1", "10.0.0.2"}
Clients    == {c \in Types \X Identities : c # <<"stt", "10.0.0.2">>}
Times      == 0..(MaxNow + 1)

\* the quota shared by the buckets
Key_NoType(type, identifier) == identifier
\* part_003:38: const key = `${type}:${identifier}`
Key(type, identifier) == type \o ":" \o identifier
Keys == {Key(c[1], c[2]) : c \in Clients}

\* Ratelimit.slidingWindow(10, '1 h'): the calls counted for a key within
\* the hour that ends at t, and limiter.limit(key) at t: the call is allowed
\* and counted while fewer than RATE_LIMIT are in the window.
InWindow(log, t) == LET Live(u) == u > t - Hour IN SelectSeq(log, Live)
limit(log, t) ==
  LET live == InWindow(log, t) IN
  IF Len(live) < RATE_LIMIT
    THEN [success |-> TRUE, log |-> Append(live, t)]
    ELSE [success |-> FALSE, log |-> live]

NoCalls == [ok |-> 0, no |-> 0]
NoRateResponse == [code |-> 0, calls |-> 0]

\* request.json() gave nothing: not read yet, or the body is not JSON
NoBody == [json |-> FALSE, phone |-> "", message |-> 0, runAt |-> InvalidDate,
           timezone |-> "", consent |-> "absent"]
IdleRequest == [pc |-> "idle", body |-> NoBody, response |-> 0]

\* ------------------------------------------------- the adapters on their own
\* Error codes the transport also rejects with and the allow-list does not
\* name: 30005 lies between two listed codes, 21211 is an invalid number.
OtherCodes  == {21211, 30005, 30007}
AllOutcomes == {Resolved, NoCode} \cup retryableCodes \cup OtherCodes
Recipients  == {"+14155552671", "+442071838750"}
Messages    == {"a", "b"}

NoSmsCall == [called |-> FALSE, to |-> "", body |-> "", created |-> FALSE,
              errorCode |-> NoCode, result |-> NoResult]

\* sendSMS(to, body), twilio.ts:26-75, called on its own.  created: the
\* call got as far as client.messages.create; errorCode: twilioError.code
\* when that call rejected with a numeric code.
SendCalled(to, body) ==
  /\ twilioSeq < MaxInvocations
  /\ \E outcome \in AllOutcomes :
       LET created == CallsTransport(env) IN
       /\ smsCall' = [called |-> TRUE, to |-> to, body |-> body, created |-> created,
                      errorCode |-> IF created /\ outcome # Resolved THEN outcome ELSE NoCode,
                      result |-> sendSMS(env, outcome, twilioSeq + 1, now)]
       /\ twilioSeq' = IF created /\ outcome = Resolved THEN twilioSeq + 1 ELSE twilioSeq
  /\ UNCHANGED <<env, now, req, limiter, asked, rateResponse, reminders, jobs, intake, inv,
                 response, storeFaults, sendCalls, sendOks, sentWrites, jobCall, posts>>

\* Date.now() and runAt.getTime(), in milliseconds
MsPerSecond == 1000
NowMs  == {0, 1500}
RunAts == {0, 999, 1000, 1001, 2500, 3999}
Max(a, b) == IF a >= b THEN a ELSE b

\* the delay without the clamp
delaySeconds_NoClamp(runAt, t) == (runAt - t) \div MsPerSecond
\* part_002:477: Math.max(0, Math.floor((runAt.getTime() - Date.now()) / 1000))
delaySeconds(runAt, t) == Max(0, (runAt - t) \div MsPerSecond)

\* TRUE when scheduleReminderJob gets as far as client.publishJSON
CallsScheduler(e) == e.appUrl /\ e.qstashToken

NoDelay   == -1
NoJobCall == [called |-> FALSE, runAt |-> 0, at |-> 0, publishCalled |-> FALSE,
              delay |-> NoDelay, result |-> [success |-> FALSE, error |-> None]]

\* scheduleReminderJob(reminderId, runAt), part_002:463-501, called on its
\* own at Date.now() = t.  delay: what publishJSON was called with.
ScheduleCalled(runAt) ==
  /\ \E t \in NowMs, published \in BOOLEAN :
       jobCall' = [called |-> TRUE, runAt |-> runAt, at |-> t,
                   publishCalled |-> CallsScheduler(env),
                   delay |-> IF CallsScheduler(env) THEN delaySeconds(runAt, t) ELSE NoDelay,
                   result |-> scheduleReminderJob(env, published)]
  /\ UNCHANGED <<env, now, req, limiter, asked, rateResponse, reminders, jobs, twilioSeq, intake,
                 inv, response, storeFaults, sendCalls, sendOks, sentWrites, smsCall, posts>>

Init ==
  /\ env \in Envs
  /\ now = 0
  /\ reminders = <<>>
  /\ jobs = <<>>
  /\ twilioSeq = 0
  /\ req = IdleRequest
  /\ limiter = [k \in Keys |-> <<>>]
  /\ asked = [c \in Clients |-> [t \in Times |-> NoCalls]]
  /\ rateResponse = NoRateResponse
  /\ intake = IdleIntake
  /\ inv = EmptyBag
  /\ response = NoResponse
  /\ storeFaults = 0
  /\ sendCalls = <<>>
  /\ sendOks = <<>>
  /\ sentWrites = <<>>
  /\ smsCall = NoSmsCall
  /\ jobCall = NoJobCall
  /\ posts = 0

\* A store call either completes or throws (the database is unreachable).
StoreOutcomes == IF storeFaults < MaxStoreFaults THEN BOOLEAN ELSE {TRUE}
Faults(storeOk) == IF storeOk THEN storeFaults ELSE storeFaults + 1

\* ----------------------------------------------------------------- intake
\* POST /api/schedule, lines 14-82: a request that passed the rate limit and
\* validation reaches prisma.reminder.create; its runAt is in the future.
IntakeCreate ==
  /\ intake.pc = "idle"
  /\ Len(reminders) < MaxReminders
  /\ reminders' = Append(reminders, NewReminder)
  /\ jobs' = Append(jobs, NoJob)
  /\ sendCalls' = Append(sendCalls, 0)
  /\ sendOks' = Append(sendOks, 0)
  /\ sentWrites' = Append(sentWrites, 0)
  /\ intake' = [IdleIntake EXCEPT !.pc = "schedule", !.rid = Len(reminders) + 1,
                                  !.runAt = now + 1]
  /\ UNCHANGED <<env, smsCall, jobCall, posts, now, req, limiter, asked, rateResponse, twilioSeq, inv, response, storeFaults>>

\* the success response without the id
SuccessBody_NoId(id, runAtDate) ==
  [IdleIntake EXCEPT !.response = 200, !.scheduledFor = toISOString(runAtDate)]
\* lines 101-106: the success response
SuccessBody(id, runAtDate) ==
  [IdleIntake EXCEPT !.response = 200, !.reminderId = id,
                     !.scheduledFor = toISOString(runAtDate)]

\* line 84: await scheduleReminderJob(reminder.id, runAtDate)
IntakeSchedule ==
  /\ intake.pc = "schedule"
  /\ \E published \in BOOLEAN :
       LET r == scheduleReminderJob(env, published) IN
       /\ jobs' = IF r.success
                    THEN [jobs EXCEPT ![intake.rid].enqueued = TRUE]
                    ELSE jobs
       /\ intake' = IF r.success
                      THEN SuccessBody(intake.rid, intake.runAt)
                      ELSE [intake EXCEPT !.pc = "markFailed", !.result = r]
  /\ UNCHANGED <<env, smsCall, jobCall, posts, now, req, limiter, asked, rateResponse, reminders, twilioSeq, inv, response, storeFaults,
                 sendCalls, sendOks, sentWrites>>

\* the update without the error
EnqueueFailedData_NoError(error) == [status |-> "FAILED"]
\* lines 87-93: what intake writes when the enqueue failed
EnqueueFailedData(error) == [status |-> "FAILED", lastError |-> error]

\* lines 86-99: the enqueue failed; an update that throws lands in the catch.
IntakeMarkFailed ==
  /\ intake.pc = "markFailed"
  /\ \E storeOk \in StoreOutcomes :
       /\ reminders' = IF storeOk
                         THEN Update(intake.rid, EnqueueFailedData(intake.result.error))
                         ELSE reminders
       /\ storeFaults' = Faults(storeOk)
  /\ intake' = [IdleIntake EXCEPT !.response = 500]
  /\ UNCHANGED <<env, smsCall, jobCall, posts, now, req, limiter, asked, rateResponse, jobs, twilioSeq, inv, response, sendCalls, sendOks, sentWrites>>

\* ----------------------------------------------------- intake: the boundary
\* process.env as POST /api/schedule reads it: getRateLimiter (part_003:9,
\* both UPSTASH_REDIS_REST_* set), scheduleReminderJob and getQStashClient.
IntakeEnvs == [appUrl : BOOLEAN, qstashToken : BOOLEAN, upstash : BOOLEAN]

\* The JSON bodies a client may post.  A message stands as its length, a
\* runAt string as the time it parses to.  consent is a JSON value: the
\* boolean true, the boolean false, no such key, or the string "yes".
JsonTrue == "true"
Consents == {JsonTrue, "false", "absent", "yes"}
MaxRunAt    == MaxNow + Year + 1
ValidPhones == {"+14155552671"}       \* what isValidPhoneNumber accepts
Bodies ==
  {NoBody} \union
  [ json     : {TRUE},
    phone    : {"+14155552671", "12345"},
    message  : {0, 1, MAX_MESSAGE_LENGTH + 1},
    runAt    : {InvalidDate} \union (0..MaxRunAt),
    timezone : {"", "UTC"},
    consent  : Consents ]

\* the limiter's answer not looked at
checkRateLimit_AllowAll(configured, limited) == [success |-> TRUE, remaining |-> 999]
\* part_003:28-46.  limited is what limiter.limit(key) answers.
checkRateLimit(configured, limited) ==
  IF ~configured THEN [success |-> TRUE, remaining |-> 999]
  ELSE [success |-> ~limited, remaining |-> 0]

\* limiter.limit(key): under the limit, over it, or Redis cannot be reached
LimitOutcomes == {"allowed", "limited", "throws"}

\* the schema without its consent key
safeParse_NoConsent(body, t) ==
  /\ body.phone \in ValidPhones
  /\ body.message >= 1
  /\ body.message <= MAX_MESSAGE_LENGTH
  /\ body.runAt # InvalidDate /\ body.runAt > t
  /\ body.timezone # ""
\* scheduleRequestSchema.safeParse(body).success at clock reading t
safeParse(body, t) ==
  /\ body.phone \in ValidPhones
  /\ body.message >= 1
  /\ body.message <= MAX_MESSAGE_LENGTH
  /\ body.runAt # InvalidDate /\ body.runAt > t
  /\ body.timezone # ""
  /\ body.consent = JsonTrue

formatPhoneE164(phone) == IF phone \in ValidPhones THEN phone ELSE None

\* line 54: runAtDate <= new Date()
InPast(runAtDate, t) == runAtDate <= t
\* the upper limit taken exclusive
TooFar_Ge(runAtDate, t) == runAtDate >= t + Year
\* lines 61-64: runAtDate > maxFutureDate
TooFar(runAtDate, t) == runAtDate > t + Year

\* lines 29-69: the status POST returns with before it reaches the store; 0
\* when it goes on to prisma.reminder.create.  The block is synchronous, so
\* its clock readings are all the one instant t.
Validate(body, t) ==
  IF ~body.json THEN 500
  ELSE IF ~safeParse(body, t) THEN 400
  ELSE IF formatPhoneE164(body.phone) = None THEN 400
  ELSE IF InPast(body.runAt, t) THEN 400
  ELSE IF TooFar(body.runAt, t) THEN 400
  ELSE 0

\* the handler going on after it has answered
AfterValidation_FallThrough(code) == "create"
\* every error answer is a return
AfterValidation(code) == IF code = 0 THEN "create" ELSE "idle"

\* a request reaches POST /api/schedule
IntakeArrive ==
  /\ req.pc = "idle"
  /\ intake.pc = "idle"
  /\ req' = [IdleRequest EXCEPT !.pc = "rate"]
  /\ UNCHANGED <<env, smsCall, jobCall, posts, now, limiter, asked, rateResponse, reminders, jobs, twilioSeq, intake, inv, response,
                 storeFaults, sendCalls, sendOks, sentWrites>>

\* lines 16-27: await checkRateLimit(clientIP, 'schedule')
IntakeRateCheck ==
  /\ req.pc = "rate"
  /\ \E outcome \in LimitOutcomes :
       IF env.upstash /\ outcome = "throws"
         THEN req' = [IdleRequest EXCEPT !.response = 500]
       ELSE LET rateCheck == checkRateLimit(env.upstash, outcome = "limited") IN
            req' = IF ~rateCheck.success
                     THEN [IdleRequest EXCEPT !.response = 429]
                     ELSE [IdleRequest EXCEPT !.pc = "validate"]
  /\ UNCHANGED <<env, smsCall, jobCall, posts, now, limiter, asked, rateResponse, reminders, jobs, twilioSeq, intake, inv, response,
                 storeFaults, sendCalls, sendOks, sentWrites>>

\* lines 29-69: await request.json(), then the validation.
IntakeValidate ==
  /\ req.pc = "validate"
  /\ \E body \in Bodies :
       LET code == Validate(body, now) IN
       req' = [pc |-> AfterValidation(code), body |-> body, response |-> code]
  /\ UNCHANGED <<env, smsCall, jobCall, posts, now, limiter, asked, rateResponse, reminders, jobs, twilioSeq, intake, inv, response,
                 storeFaults, sendCalls, sendOks, sentWrites>>

\* lines 71-82: await prisma.reminder.create for the validated request; a
\* create that throws lands in the catch.
IntakeStore ==
  /\ req.pc = "create"
  /\ Len(reminders) < MaxReminders
  /\ \E storeOk \in StoreOutcomes :
       /\ storeFaults' = Faults(storeOk)
       /\ IF storeOk
            THEN /\ reminders' = Append(reminders, NewReminder)
                 /\ jobs' = Append(jobs, NoJob)
                 /\ sendCalls' = Append(sendCalls, 0)
                 /\ sendOks' = Append(sendOks, 0)
                 /\ sentWrites' = Append(sentWrites, 0)
                 /\ intake' = [IdleIntake EXCEPT !.pc = "schedule",
                                                 !.rid = Len(reminders) + 1,
                                                 !.runAt = req.body.runAt]
                 /\ req' = [req EXCEPT !.pc = "idle"]
            ELSE /\ req' = [req EXCEPT !.pc = "idle", !.response = 500]
                 /\ UNCHANGED <<reminders, jobs, sendCalls, sendOks, sentWrites, intake>>
  /\ UNCHANGED <<env, smsCall, jobCall, posts, now, limiter, asked, rateResponse, twilioSeq, inv, response>>

\* The first await of POST /api/schedule (part_000:15-27) and of POST
\* /api/stt (route.ts:14-26): checkRateLimit(getClientIP(request), type),
\* against the limiter's state.  A limit call that rejects (Redis cannot be
\* reached) is not caught by checkRateLimit and lands in the route's catch.
RateChecked(type, identifier) ==
  /\ rateResponse.calls < MaxCalls
  /\ \E reachable \in BOOLEAN :
       LET key == Key(type, identifier)
           c == <<type, identifier>>
           answered == env.upstash /\ reachable
           r == limit(limiter[key], now)
           rateCheck == checkRateLimit(env.upstash, ~r.success)
           code == IF env.upstash /\ ~reachable THEN 500
                   ELSE IF ~rateCheck.success THEN 429
                   ELSE 0
       IN /\ limiter' = IF answered THEN [limiter EXCEPT ![key] = r.log] ELSE limiter
          /\ asked' = IF ~answered THEN asked
                       ELSE IF code = 429 THEN [asked EXCEPT ![c][now].no = @ + 1]
                       ELSE [asked EXCEPT ![c][now].ok = @ + 1]
          /\ rateResponse' = [code |-> code,
                               calls |-> IF answered THEN rateResponse.calls + 1
                                         ELSE rateResponse.calls]
  /\ UNCHANGED <<env, smsCall, jobCall, posts, now, req, reminders, jobs, twilioSeq, intake, inv, response,
                 storeFaults, sendCalls, sendOks, sentWrites>>

\* the clock; what has left the limiter's window expires
Tick ==
  /\ now < MaxNow
  /\ now' = now + 1
  /\ limiter' = [k \in DOMAIN limiter |-> InWindow(limiter[k], now + 1)]
  /\ asked' = [c \in Clients |->
                 [t \in Times |-> IF t > now + 1 - Hour THEN asked[c][t] ELSE NoCalls]]
  /\ UNCHANGED <<env, smsCall, jobCall, posts, req, rateResponse, reminders, jobs, twilioSeq, intake, inv, response,
                 storeFaults, sendCalls, sendOks, sentWrites>>

\* ------------------------------------------------------------ cancellation
\* The cancellation path of spec section 5: a compare-and-transition from
\* SCHEDULED to CANCELLED.
Cancel(id) ==
  /\ reminders[id].status = "SCHEDULED"
  /\ reminders' = Update(id, [status |-> "CANCELLED"])
  /\ UNCHANGED <<env, smsCall, jobCall, posts, now, req, limiter, asked, rateResponse, jobs, twilioSeq, intake, inv, response, storeFaults,
                 sendCalls, sendOks, sentWrites>>

\* --------------------------------------------------------------- delivery
Invocations == SumDeliveries(jobs)

\* QStash calls the callback of a published job: once, again after each
\* non-2xx response up to `retries` times, and (at-least-once) again while an
\* earlier call is still running.  A 2xx response settles the job.
Deliver(id) ==
  /\ BagCardinality(inv) < MaxWorkers
  /\ jobs[id].enqueued
  /\ ~jobs[id].acked
  /\ jobs[id].deliveries < 1 + QSTASH_RETRIES
  /\ Invocations < MaxInvocations
  /\ jobs' = [jobs EXCEPT ![id].deliveries = @ + 1]
  /\ inv' = inv (+) SetToBag({NewWorker(id)})
  /\ UNCHANGED <<env, smsCall, jobCall, posts, now, req, limiter, asked, rateResponse, reminders, twilioSeq, intake, response, storeFaults,
                 sendCalls, sendOks, sentWrites>>

\* process.env as the delivery callback's module reads it when it loads
CallbackEnvs ==
  [ fromNumber  : {TRUE},
    nodeEnv     : {"development", "production"},
    twilioCreds : {TRUE},
    appUrl      : {TRUE},
    qstashToken : {TRUE},
    currentSigningKey : BOOLEAN,    \* QSTASH_CURRENT_SIGNING_KEY
    nextSigningKey    : BOOLEAN ]   \* QSTASH_NEXT_SIGNING_KEY

\* the test with either key sufficing
isQStashConfigured_Either(e) == e.currentSigningKey \/ e.nextSigningKey
\* part_001:90-95
isQStashConfigured(e) == e.currentSigningKey /\ e.nextSigningKey

\* The Upstash-Signature header of a request: QStash signs what it sends;
\* anyone else's request carries no signature or one that does not verify.
Signatures == {"valid", "invalid", "missing"}

\* verifySignatureAppRouter(handler): spec section 6, the callback verifies
\* the call originated from the scheduler before processing.
verifySignatureAppRouter(signature) == signature = "valid"

\* part_001:97-99: POST is the handler behind the verification when the
\* signing keys are configured, the bare handler otherwise.  A request that
\* QStash signed is a delivery of the job; any other request reaches the
\* handler only when nothing verifies it.
Post(id, signature) ==
  IF signature = "valid" THEN Deliver(id)
  ELSE /\ BagCardinality(inv) < MaxWorkers
       /\ posts < MaxPosts
       /\ posts' = posts + 1
       /\ IF isQStashConfigured(env) /\ ~verifySignatureAppRouter(signature)
            THEN /\ response' = [rid |-> id, code |-> 403, body |-> "Invalid signature"]
                 /\ inv' = inv
            ELSE /\ inv' = inv (+) SetToBag({ForeignWorker(id)})
                 /\ UNCHANGED response
       /\ UNCHANGED <<env, now, req, limiter, asked, rateResponse, reminders, jobs, twilioSeq,
                      intake, storeFaults, sendCalls, sendOks, sentWrites, smsCall, jobCall>>

InFlight == BagToSet(inv)

\* the invocation w moves on as w2 / returns
Continue(w, w2) == (inv (-) SetToBag({w})) (+) SetToBag({w2})
Return(w) == inv (-) SetToBag({w})

\* return NextResponse.json(body, {status: code}), as QStash receives it
Respond(w, code, body) ==
  /\ response' = [rid |-> w.rid, code |-> code, body |-> body]
  /\ jobs' = IF code = 200 /\ w.qstash THEN [jobs EXCEPT ![w.rid].acked = TRUE] ELSE jobs
  /\ inv' = Return(w)

\* the guard with the CANCELLED check left out
AlreadyHandled_SentOnly(status) ==
  IF status = "SENT" THEN "Already sent" ELSE None

\* lines 27-35: the statuses the handler returns on without sending, and the
\* message it returns with; None when it goes on to sendSMS.
AlreadyHandled(status) ==
  IF status = "SENT" THEN "Already sent"
  ELSE IF status = "CANCELLED" THEN "Reminder cancelled"
  ELSE None

\* lines 18-35: findUnique, then the guards on what was read.
HandlerFind(w) ==
  /\ w.pc = "find"
  /\ \E storeOk \in StoreOutcomes :
       LET id == w.rid
           reminder == reminders[id] IN
       /\ storeFaults' = Faults(storeOk)
       /\ IF ~storeOk THEN Respond(w, 500, "Internal server error")
          ELSE IF id \notin Ids THEN Respond(w, 404, "Reminder not found")
          ELSE IF AlreadyHandled(reminder.status) # None
            THEN Respond(w, 200, AlreadyHandled(reminder.status))
          ELSE /\ inv' = Continue(w, [w EXCEPT !.pc = "send", !.reminder = reminder])
               /\ UNCHANGED <<jobs, response>>
  /\ UNCHANGED <<env, smsCall, jobCall, posts, now, req, limiter, asked, rateResponse, reminders, twilioSeq, intake, sendCalls, sendOks, sentWrites>>

\* line 37: await sendSMS(reminder.phone, reminder.message)
HandlerSend(w) ==
  /\ w.pc = "send"
  /\ \E outcome \in TransportOutcomes :
       LET id == w.rid
           result == sendSMS(env, outcome, twilioSeq + 1, now) IN
       /\ inv' = Continue(w, [w EXCEPT !.pc = "update", !.result = result])
       /\ twilioSeq' = IF CallsTransport(env) /\ outcome = Resolved
                         THEN twilioSeq + 1 ELSE twilioSeq
       /\ sendCalls' = [sendCalls EXCEPT ![id] = @ + 1]
       /\ sendOks' = IF result.success THEN [sendOks EXCEPT ![id] = @ + 1] ELSE sendOks
  /\ UNCHANGED <<env, smsCall, jobCall, posts, now, req, limiter, asked, rateResponse, reminders, jobs, intake, response, storeFaults, sentWrites>>

\* lines 42-46, 58-61, 72-76: the data of the three updates
\* the success update also zeroing the attempt counter
SentData_ResetCount(result, t) ==
  [status |-> "SENT", retryCount |-> 0, twilioMessageId |-> result.messageId, sentAt |-> t]
SentData(result, t) ==
  [status |-> "SENT", twilioMessageId |-> result.messageId, sentAt |-> t]
\* the retry update also re-arming the status
RetryData_Rearm(newRetryCount, error) ==
  [status |-> "SCHEDULED", retryCount |-> newRetryCount, lastError |-> error]
\* the retry update without the attempt counter
RetryData_NoCount(newRetryCount, error) ==
  [lastError |-> error]
RetryData(newRetryCount, error) ==
  [retryCount |-> newRetryCount, lastError |-> error]
FailedData(newRetryCount, error) ==
  [status |-> "FAILED", retryCount |-> newRetryCount, lastError |-> error]

\* the budget test off by one
ShouldRetry_Le(result, newRetryCount) == result.retryable /\ newRetryCount <= MAX_RETRIES
\* line 55: the retry branch is taken
ShouldRetry(result, newRetryCount) == result.retryable /\ newRetryCount < MAX_RETRIES

\* lines 39-87: the update the result selects, and the response; an update
\* that throws lands in the catch.
HandlerUpdate(w) ==
  /\ w.pc = "update"
  /\ \E storeOk \in StoreOutcomes :
       LET id == w.rid
           reminder == w.reminder
           result == w.result
           newRetryCount == reminder.retryCount + 1 IN
       /\ storeFaults' = Faults(storeOk)
       /\ IF ~storeOk
            THEN /\ Respond(w, 500, "Internal server error")
                 /\ UNCHANGED <<reminders, sentWrites>>
          ELSE IF result.success
            THEN /\ reminders' = Update(id, SentData(result, now))
                 /\ sentWrites' = [sentWrites EXCEPT ![id] = @ + 1]
                 /\ Respond(w, 200, "success")
          ELSE IF ShouldRetry(result, newRetryCount)
            THEN /\ reminders' = Update(id, RetryData(newRetryCount, result.error))
                 /\ UNCHANGED sentWrites
                 /\ Respond(w, 500, "retry")
          ELSE /\ reminders' = Update(id, FailedData(newRetryCount, result.error))
               /\ UNCHANGED sentWrites
               /\ Respond(w, 500, "no retry")
  /\ UNCHANGED <<env, smsCall, jobCall, posts, now, req, limiter, asked, rateResponse, twilioSeq, intake, sendCalls, sendOks>>

Next ==
  \/ IntakeCreate
  \/ IntakeSchedule
  \/ IntakeMarkFailed
  \/ \E id \in Ids : Cancel(id)
  \/ \E id \in Ids : Deliver(id)
  \/ \E w \in InFlight : HandlerFind(w)
  \/ \E w \in InFlight : HandlerSend(w)
  \/ \E w \in InFlight : HandlerUpdate(w)

Spec == Init /\ [][Next]_vars

\* The program as the sources have it: no cancellation path is deployed, so
\* nothing but intake and the delivery callback writes to the store.
CodeNext ==
  \/ IntakeCreate
  \/ IntakeSchedule
  \/ IntakeMarkFailed
  \/ \E id \in Ids : Deliver(id)
  \/ \E w \in InFlight : HandlerFind(w)
  \/ \E w \in InFlight : HandlerSend(w)
  \/ \E w \in InFlight : HandlerUpdate(w)

SpecCode == Init /\ [][CodeNext]_vars

\* The callback invoked sequentially: QStash makes the next call only after
\* the previous one has returned.
SeqDeliver(id) == inv = EmptyBag /\ Deliver(id)

SeqNext ==
  \/ IntakeCreate
  \/ IntakeSchedule
  \/ IntakeMarkFailed
  \/ \E id \in Ids : SeqDeliver(id)
  \/ \E w \in InFlight : HandlerFind(w)
  \/ \E w \in InFlight : HandlerSend(w)
  \/ \E w \in InFlight : HandlerUpdate(w)

SpecSeq == Init /\ [][SeqNext]_vars

\* POST /api/schedule from the arrival of a request on, one request at a
\* time, with the clock running.
InitIntake ==
  /\ env \in IntakeEnvs
  /\ now = 0
  /\ req = IdleRequest
  /\ limiter = [k \in Keys |-> <<>>]
  /\ asked = [c \in Clients |-> [t \in Times |-> NoCalls]]
  /\ rateResponse = NoRateResponse
  /\ reminders = <<>>
  /\ jobs = <<>>
  /\ twilioSeq = 0
  /\ intake = IdleIntake
  /\ inv = EmptyBag
  /\ response = NoResponse
  /\ storeFaults = 0
  /\ sendCalls = <<>>
  /\ sendOks = <<>>
  /\ sentWrites = <<>>
  /\ smsCall = NoSmsCall
  /\ jobCall = NoJobCall
  /\ posts = 0

IntakeNext ==
  \/ IntakeArrive
  \/ IntakeRateCheck
  \/ IntakeValidate
  \/ IntakeStore
  \/ IntakeSchedule
  \/ IntakeMarkFailed
  \/ Tick

SpecIntake == InitIntake /\ [][IntakeNext]_vars

\* The rate limit of both routes: calls from a few clients against the
\* limiter, with the clock running.
InitRate ==
  /\ InitIntake
  /\ env.appUrl /\ env.qstashToken

RateNext ==
  \/ \E c \in Clients : RateChecked(c[1], c[2])
  \/ Tick

SpecRate == InitRate /\ [][RateNext]_vars

\* The delivery callback open to requests from anywhere, one request at a
\* time, with the signing keys set or not.
InitCallback ==
  /\ env \in CallbackEnvs
  /\ now = 0
  /\ req = IdleRequest
  /\ limiter = [k \in Keys |-> <<>>]
  /\ asked = [c \in Clients |-> [t \in Times |-> NoCalls]]
  /\ rateResponse = NoRateResponse
  /\ reminders = <<>>
  /\ jobs = <<>>
  /\ twilioSeq = 0
  /\ intake = IdleIntake
  /\ inv = EmptyBag
  /\ response = NoResponse
  /\ storeFaults = 0
  /\ sendCalls = <<>>
  /\ sendOks = <<>>
  /\ sentWrites = <<>>
  /\ smsCall = NoSmsCall
  /\ jobCall = NoJobCall
  /\ posts = 0

SeqPost(id, signature) == inv = EmptyBag /\ Post(id, signature)

CallbackNext ==
  \/ IntakeCreate
  \/ IntakeSchedule
  \/ IntakeMarkFailed
  \/ \E id \in Ids, signature \in Signatures : SeqPost(id, signature)
  \/ \E w \in InFlight : HandlerFind(w)
  \/ \E w \in InFlight : HandlerSend(w)
  \/ \E w \in InFlight : HandlerUpdate(w)

SpecCallback == InitCallback /\ [][CallbackNext]_vars

\* sendSMS on its own, under every configuration
SendNext == \E to \in Recipients, body \in Messages : SendCalled(to, body)
SpecSend == Init /\ [][SendNext]_vars

\* scheduleReminderJob on its own, under every configuration
EnqueueNext == \E runAt \in RunAts : ScheduleCalled(runAt)
SpecEnqueue == Init /\ [][EnqueueNext]_vars

\* ================================================================= claims
\* w takes a handler step in this transition (one copy of its local state
\* leaves the bag; Deliver only ever adds copies).
StepOf(w) == CopiesIn(w, inv') < CopiesIn(w, inv)

Returned(id) == \A w \in InFlight : w.rid # id

\* the deployment in which sendSMS succeeds on every call (lines 37-44)
AlwaysSucceeds(e) == e.fromNumber /\ e.nodeEnv = "development"

\* C1: for every reminder, whatever the interleaving of the invocations of
\* the delivery callback, sendSMS returns success at most once and status
\* SENT is written at most once.
C1_AtMostOneDelivery ==
  \A id \in Ids : sendOks[id] <= 1 /\ sentWrites[id] <= 1

\* C2: when the callback was invoked twice for a SCHEDULED reminder, the
\* adapter always succeeds and no store call threw, then once both have
\* returned and the reminder is SENT, sendSMS was called exactly once and
\* SENT was written exactly once.
C2_TwoInvocationsOneSend ==
  \A id \in Ids :
    ( /\ AlwaysSucceeds(env)
      /\ storeFaults = 0
      /\ jobs[id].deliveries = 2
      /\ Returned(id)
      /\ reminders[id].status = "SENT" )
    => (sendCalls[id] = 1 /\ sentWrites[id] = 1)

\* C3: in every reachable state every reminder has retryCount <= MAX_RETRIES.
C3_RetryCountBounded ==
  \A id \in Ids : reminders[id].retryCount <= MAX_RETRIES

\* C4: in every reachable state a reminder whose retryCount equals
\* MAX_RETRIES has status FAILED.
C4_ExhaustedIsFailed ==
  \A id \in Ids :
    reminders[id].retryCount = MAX_RETRIES => reminders[id].status = "FAILED"

\* C5: over a reminder's lifetime sendSMS is called at most MAX_RETRIES times
\* for it, however many times the scheduler invokes the callback.
C5_SendsBounded ==
  \A id \in Ids : sendCalls[id] <= MAX_RETRIES

\* C6: the handler step that loads a reminder in status SENT or CANCELLED
\* returns a 200 'already handled' response, and that invocation calls no
\* sendSMS and writes nothing: the row and the send counters are unchanged.
C6_AlreadyHandledNoOp ==
  [][\A w \in InFlight :
       ( /\ w.pc = "find"
         /\ StepOf(w)
         /\ storeFaults' = storeFaults
         /\ reminders[w.rid].status \in {"SENT", "CANCELLED"} )
       => ( /\ inv' = Return(w)
            /\ response'.rid = w.rid
            /\ response'.code = 200
            /\ response'.body \in {"Already sent", "Reminder cancelled"}
            /\ reminders' = reminders
            /\ sendCalls' = sendCalls
            /\ twilioSeq' = twilioSeq )]_vars

\* C6 witness: an invocation has just returned 'Reminder cancelled' for a
\* reminder that is CANCELLED and was never sent to.
C6_Witness ==
  \E id \in Ids :
    /\ reminders[id].status = "CANCELLED"
    /\ response = [rid |-> id, code |-> 200, body |-> "Reminder cancelled"]
    /\ sendCalls[id] = 0

\* C7: sendSMS is called only by invocations that read the reminder in status
\* SCHEDULED; one that reads FAILED returns without sending.
C7_SendOnlyWhenScheduled ==
  \A w \in InFlight :
    w.pc \in {"send", "update"} => w.reminder.status = "SCHEDULED"

\* C8: FAILED is terminal: an invocation that loaded the reminder in status
\* FAILED (so one that came after the transition) leaves every field of the
\* row as it is.
C8_FailedIsTerminal ==
  [][\A w \in InFlight :
       (w.pc = "update" /\ w.reminder.status = "FAILED" /\ StepOf(w))
       => reminders'[w.rid] = reminders[w.rid]]_vars

\* C9: FAILED is entered only from SCHEDULED; in particular (the clause
\* stated here, which the first implies) no reminder whose status is SENT is
\* changed to FAILED.
C9_SentNeverFailed ==
  [][\A id \in Ids :
       reminders[id].status = "SENT" => reminders'[id].status # "FAILED"]_vars

\* C10: no step of intake or of the delivery callback writes status SCHEDULED
\* to a reminder whose status is SENT, FAILED or CANCELLED.
C10_NeverBackToScheduled ==
  [][\A id \in Ids :
       reminders[id].status \in {"SENT", "FAILED", "CANCELLED"}
       => reminders'[id].status # "SCHEDULED"]_vars

\* C10 witness: the retry branch has just written retryCount and lastError to
\* a reminder another invocation had already moved to SENT, and it is still
\* SENT.
C10_Witness ==
  \E id \in Ids :
    /\ reminders[id].status = "SENT"
    /\ response = [rid |-> id, code |-> 500, body |-> "retry"]
    /\ reminders[id].retryCount > 0

\* C11: in every reachable state a reminder has a twilioMessageId or a sentAt
\* only if its status is SENT.
C11_SentFieldsOnlyWhenSent ==
  \A id \in Ids :
    (reminders[id].twilioMessageId # NoMessageId \/ reminders[id].sentAt # NoTime)
    => reminders[id].status = "SENT"

\* C12: once CANCELLED is committed for a reminder, also while an invocation
\* that read SCHEDULED is in flight, its status is never changed to SENT or
\* FAILED.
C12_CancelledStaysCancelled ==
  [][\A id \in Ids :
       reminders[id].status = "CANCELLED"
       => reminders'[id].status \notin {"SENT", "FAILED"}]_vars

\* C13: every update by the delivery callback is a compare-and-transition: it
\* changes the row only if the row's status at that moment is the status the
\* invocation read.
C13_CompareAndTransition ==
  [][\A w \in InFlight :
       (w.pc = "update" /\ StepOf(w) /\ reminders'[w.rid] # reminders[w.rid])
       => reminders[w.rid].status = w.reminder.status]_vars

\* C14: the invocation that moves a reminder to FAILED answers 2xx, so that
\* the scheduler does not call again.
C14_FailedAnswers2xx ==
  [][\A w \in InFlight :
       ( /\ w.pc = "update"
         /\ StepOf(w)
         /\ reminders[w.rid].status # "FAILED"
         /\ reminders'[w.rid].status = "FAILED" )
       => (response'.code >= 200 /\ response'.code < 300)]_vars

\* the scheduler is through with the job of id: it got a 2xx, or it made
\* every call of its retry envelope, and no call is still running
SchedulerDone(id) ==
  /\ jobs[id].enqueued
  /\ jobs[id].acked \/ jobs[id].deliveries = 1 + QSTASH_RETRIES
  /\ Returned(id)

\* C15: every reminder whose job was enqueued ends in SENT or FAILED: when
\* the scheduler is through with the job, the reminder is not left SCHEDULED.
C15_EndsTerminal ==
  \A id \in Ids :
    SchedulerDone(id) => reminders[id].status \in {"SENT", "FAILED"}

\* the update step of w, made by a handler whose findUnique read status
\* SCHEDULED and whose update does not throw
UpdatesScheduled(w) ==
  /\ w.pc = "update"
  /\ StepOf(w)
  /\ w.reminder.status = "SCHEDULED"
  /\ storeFaults' = storeFaults

\* C16: with the callback invoked sequentially and no store call throwing,
\* a success that follows k retryable failures of sendSMS for a SCHEDULED
\* reminder (k < 3, the failures being all the earlier calls of sendSMS)
\* leaves status SENT, retryCount = k and twilioMessageId set; and a SENT
\* row is final: no later step changes it.
C16_RetryThenSuccess ==
  [][ /\ \A w \in InFlight :
           (UpdatesScheduled(w) /\ w.result.success /\ storeFaults' = 0)
           => LET id == w.rid
                  k == sendCalls[id] - 1 IN
              /\ k < MAX_RETRIES
              /\ sendOks[id] = 1
              /\ reminders'[id].status = "SENT"
              /\ reminders'[id].retryCount = k
              /\ reminders'[id].twilioMessageId # NoMessageId
      /\ \A id \in Ids :
           reminders[id].status = "SENT" => reminders'[id] = reminders[id] ]_vars

\* two retryable failures, then a success: SENT with retryCount 2
C16_Witness ==
  \E id \in Ids :
    /\ reminders[id].status = "SENT"
    /\ reminders[id].retryCount = 2
    /\ reminders[id].twilioMessageId # NoMessageId
    /\ sendCalls[id] = 3
    /\ sendOks[id] = 1
    /\ storeFaults = 0
    /\ Returned(id)

\* C17: when the handler read a SCHEDULED reminder and sendSMS failed with
\* retryable = true and retryCount + 1 < 3, its update writes retryCount =
\* the retryCount it read + 1 and lastError = the adapter's error, leaves the
\* status as it is (a SCHEDULED reminder remains SCHEDULED), enqueues no job,
\* and the response is non-2xx.  With no other write to the row since the
\* read, that is the row's retryCount incremented by exactly 1.
C17_RetryableFailure ==
  [][\A w \in InFlight :
       ( /\ UpdatesScheduled(w)
         /\ ~w.result.success
         /\ w.result.retryable
         /\ w.reminder.retryCount + 1 < MAX_RETRIES )
       => LET id == w.rid IN
          /\ reminders'[id].retryCount = w.reminder.retryCount + 1
          /\ reminders'[id].lastError = w.result.error
          /\ reminders'[id].status = reminders[id].status
          /\ reminders[id] = w.reminder
               => /\ reminders'[id].retryCount = reminders[id].retryCount + 1
                  /\ reminders'[id].status = "SCHEDULED"
          /\ jobs' = jobs
          /\ response'.rid = id
          /\ ~(response'.code >= 200 /\ response'.code < 300) ]_vars

\* a first attempt failed retryably: still SCHEDULED, retryCount 1, retry
\* signalled
C17_Witness ==
  \E id \in Ids :
    /\ reminders[id].status = "SCHEDULED"
    /\ reminders[id].retryCount = 1
    /\ reminders[id].lastError = ErrorMessage(20429)
    /\ sendCalls[id] = 1
    /\ response = [rid |-> id, code |-> 500, body |-> "retry"]
    /\ ~jobs[id].acked

\* C18: when the handler read a SCHEDULED reminder and sendSMS failed with
\* retryable = false, or with retryCount + 1 >= 3, its update writes status
\* FAILED, lastError = the adapter's error and retryCount = the retryCount
\* it read + 1.
C18_TerminalFailure ==
  [][\A w \in InFlight :
       ( /\ UpdatesScheduled(w)
         /\ ~w.result.success
         /\ ~w.result.retryable \/ w.reminder.retryCount + 1 >= MAX_RETRIES )
       => LET id == w.rid IN
          /\ reminders'[id].status = "FAILED"
          /\ reminders'[id].lastError = w.result.error
          /\ reminders'[id].lastError # None
          /\ reminders'[id].retryCount = w.reminder.retryCount + 1 ]_vars

\* a terminal failure on the first attempt: FAILED with retryCount 1
C18_Witness ==
  \E id \in Ids :
    /\ reminders[id].status = "FAILED"
    /\ reminders[id].retryCount = 1
    /\ reminders[id].lastError # None
    /\ sendCalls[id] = 1
    /\ response.rid = id
    /\ response.body = "no retry"

\* every field but runAt passes, and runAt is a date
OtherwiseValid(body) ==
  /\ body.json
  /\ body.phone \in ValidPhones
  /\ body.message \in 1..MAX_MESSAGE_LENGTH
  /\ body.timezone # ""
  /\ body.consent = JsonTrue
  /\ body.runAt # InvalidDate

\* C19: an otherwise valid intake request passes validation (goes on to
\* the store) exactly when now < fireAt <= now + 1 year; with fireAt <= now
\* or fireAt > now + 1 year it is answered 400.
C19_FireAtWindow ==
  [][ (req.pc = "validate" /\ req'.pc # "validate" /\ OtherwiseValid(req'.body))
      => LET fireAt == req'.body.runAt IN
         /\ req'.pc = "create" <=> (now < fireAt /\ fireAt <= now + Year)
         /\ req'.pc = "create" => req'.response = 0
         /\ (fireAt <= now \/ fireAt > now + Year)
              => (req'.pc = "idle" /\ req'.response = 400) ]_vars

\* a request for exactly one year ahead has passed validation
C19_Witness ==
  /\ req.pc = "create"
  /\ OtherwiseValid(req.body)
  /\ req.body.runAt = now + Year

\* C20: an intake request answered 400 or 429 leaves the reminder store and
\* the scheduler untouched: no step from its arrival up to and including
\* the one that answers creates or changes a reminder or a job.
C20_RejectedLeavesNoTrace ==
  [][ ( \/ req' # req /\ req'.response \in {400, 429}
        \/ req.pc \in {"rate", "validate"} )
      => (reminders' = reminders /\ jobs' = jobs) ]_vars

\* a request was turned away by the rate limit after an earlier one had been
\* stored and enqueued; the store holds that one reminder and nothing else
C20_Witness ==
  /\ req.pc = "idle"
  /\ req.response = 429
  /\ Len(reminders) = 1
  /\ Len(jobs) = 1
  /\ jobs[1].enqueued

\* C21: an intake request whose consent is anything but the boolean true
\* is answered 400 by the validation and goes no further; a reminder is
\* only ever created for a request whose consent is the boolean true.
C21_ConsentRequired ==
  [][ /\ ( /\ req.pc = "validate" /\ req'.pc # "validate"
           /\ req'.body.json /\ req'.body.consent # JsonTrue )
         => (req'.pc = "idle" /\ req'.response = 400 /\ reminders' = reminders)
      /\ Len(reminders') > Len(reminders)
         => (req.pc = "create" /\ req.body.consent = JsonTrue) ]_vars

\* a request valid in every field but consent (false) was answered 400 and
\* the store is empty
C21_Witness ==
  /\ req.pc = "idle"
  /\ req.response = 400
  /\ OtherwiseValid([req.body EXCEPT !.consent = JsonTrue])
  /\ req.body.consent = "false"
  /\ now = 0
  /\ req.body.runAt = 1
  /\ reminders = <<>>

\* C22: in every intake execution the reminder is in the store, with status
\* SCHEDULED, before the step that enqueues its job, and that step leaves
\* the row as it is; so every enqueued job's reminder id is the id of a
\* reminder in the store.
C22_PersistBeforeEnqueue ==
  [][ /\ \A id \in DOMAIN jobs' :
           (jobs'[id].enqueued /\ ~(id \in DOMAIN jobs /\ jobs[id].enqueued))
           => /\ id \in Ids
              /\ reminders[id].status = "SCHEDULED"
              /\ reminders'[id] = reminders[id]
      /\ \A id \in DOMAIN jobs' :
           jobs'[id].enqueued => id \in 1..Len(reminders') ]_vars

\* intake has answered 200: the job is enqueued and its reminder is stored
C22_Witness ==
  \E id \in Ids :
    /\ jobs[id].enqueued
    /\ reminders[id].status = "SCHEDULED"
    /\ intake.pc = "idle"
    /\ intake.response = 200

\* C23: when scheduleReminderJob fails, intake goes on to mark the reminder
\* it has just created: the update (when it does not throw) writes status
\* FAILED and lastError = the enqueue error, the caller is answered 500, no
\* job is enqueued, and the row stays in the store: no step ever removes a
\* reminder.
C23_EnqueueFailure ==
  [][ /\ (intake.pc = "schedule" /\ intake'.pc # "schedule")
         => LET id == intake.rid IN
            \/ jobs'[id].enqueued /\ intake'.response = 200
            \/ /\ ~jobs'[id].enqueued
               /\ intake'.pc = "markFailed"
               /\ intake'.result.error \in {ErrNoAppUrl, ErrNoToken, ErrPublish}
      /\ (intake.pc = "markFailed" /\ intake'.pc # "markFailed")
         => LET id == intake.rid IN
            /\ intake'.response = 500
            /\ ~jobs'[id].enqueued
            /\ id \in 1..Len(reminders')
            /\ storeFaults' = storeFaults
                 => /\ reminders'[id].status = "FAILED"
                    /\ reminders'[id].lastError = intake.result.error
                    /\ reminders'[id].retryCount = 0
      /\ Len(reminders') >= Len(reminders) ]_vars

\* publishJSON failed: the reminder is FAILED with that error, never
\* enqueued, and the caller got 500
C23_Witness ==
  \E id \in Ids :
    /\ reminders[id].status = "FAILED"
    /\ reminders[id].lastError = ErrPublish
    /\ ~jobs[id].enqueued
    /\ sendCalls[id] = 0
    /\ intake.pc = "idle"
    /\ intake.response = 500

\* C24: when the enqueue succeeds for a valid, consented request that was
\* let through by the rate limit, the response is 200 with reminderId = the
\* id of the reminder this request created and scheduledFor = the requested
\* runAt as an instant; that reminder is stored with status SCHEDULED and
\* retryCount 0; and the step enqueues exactly one job, the one for that id.
C24_SuccessResponse ==
  [][ (intake.pc = "schedule" /\ intake'.pc = "idle" /\ intake'.response = 200)
      => LET id == intake'.reminderId IN
         /\ OtherwiseValid(req.body)
         /\ id = Len(reminders)
         /\ id \in Ids
         /\ intake'.scheduledFor = <<"Z", req.body.runAt>>
         /\ reminders'[id].status = "SCHEDULED"
         /\ reminders'[id].retryCount = 0
         /\ ~jobs[id].enqueued
         /\ jobs'[id].enqueued
         /\ \A j \in DOMAIN jobs : j # id => jobs'[j] = jobs[j]
         /\ DOMAIN jobs' = DOMAIN jobs ]_vars

\* a request for runAt = 2 was answered 200 with reminderId 1
C24_Witness ==
  /\ intake.pc = "idle"
  /\ intake.response = 200
  /\ intake.reminderId = 1
  /\ intake.scheduledFor = <<"Z", 2>>
  /\ req.body.runAt = 2
  /\ reminders[1].status = "SCHEDULED"
  /\ reminders[1].retryCount = 0
  /\ jobs[1].enqueued

\* the calls of client c that the limiter allowed / answered at all within
\* the hour that ends now
RECURSIVE SumOk(_, _)
SumOk(c, ts) ==
  IF ts = {} THEN 0
  ELSE LET t == CHOOSE x \in ts : TRUE IN asked[c][t].ok + SumOk(c, ts \ {t})
RECURSIVE SumNo(_, _)
SumNo(c, ts) ==
  IF ts = {} THEN 0
  ELSE LET t == CHOOSE x \in ts : TRUE IN asked[c][t].no + SumNo(c, ts \ {t})
ThisHour == {t \in Times : t > now - Hour /\ t <= now}
Allowed(c) == SumOk(c, ThisHour)
Answered(c) == SumOk(c, ThisHour) + SumNo(c, ThisHour)
\* this step is a call of client c that the limiter answers
CallBy(c) == now' = now /\ asked'[c] # asked[c]

\* C25: for a fixed bucket and identity, with the limiter configured and
\* reachable: a call with fewer than 10 calls before it in the rolling hour
\* is allowed (the 10th included); a call with 10 allowed calls before it in
\* the rolling hour is answered 429 (the 11th); and no hour holds more than
\* 10 allowed calls.
C25_TenPerHour ==
  [][\A c \in Clients :
       CallBy(c)
       => /\ Answered(c) < RATE_LIMIT => rateResponse'.code = 0
          /\ Allowed(c) = RATE_LIMIT => rateResponse'.code = 429
          /\ Allowed(c) <= RATE_LIMIT ]_vars

\* ten scheduling calls of one address were allowed and its eleventh was
\* answered 429 within the hour
C25_Witness ==
  \E c \in Clients :
    /\ c[1] = "schedule"
    /\ env.upstash
    /\ Allowed(c) = RATE_LIMIT
    /\ Answered(c) = RATE_LIMIT + 1
    /\ rateResponse = [code |-> 429, calls |-> RATE_LIMIT + 1]

\* C26: the quota is per (bucket, identity): a call of one client leaves
\* the limiter's count for every other client (the other bucket of the
\* same address, another address) as it is; the quota a client has used is
\* the number of its own allowed calls in the hour; and a client is
\* answered 429 only with 10 allowed calls of its own in the hour.
C26_QuotaPerBucketAndIdentity ==
  [][ /\ \A c \in Clients :
           CallBy(c)
           => /\ \A c2 \in Clients \ {c} :
                   limiter'[Key(c2[1], c2[2])] = limiter[Key(c2[1], c2[2])]
              /\ rateResponse'.code = 429 => Allowed(c) = RATE_LIMIT
      /\ \A c \in Clients :
           Len(InWindow(limiter[Key(c[1], c[2])], now)) = Allowed(c) ]_vars

\* an address that used up its scheduling quota one tick ago is allowed a
\* transcription call now
C26_Witness ==
  /\ env.upstash
  /\ now >= 1
  /\ asked[<<"schedule", "10.0.0.1">>][now - 1].ok = RATE_LIMIT
  /\ asked[<<"schedule", "10.0.0.1">>][now].ok = 0
  /\ asked[<<"stt", "10.0.0.1">>][now].ok = 1
  /\ rateResponse = [code |-> 0, calls |-> RATE_LIMIT + 1]
  /\ Len(limiter[Key("schedule", "10.0.0.1")]) = RATE_LIMIT

\* C27: when the limiter is not configured, or its limit call fails, the
\* rate-limit step of intake lets the request through to validation: it
\* never answers with a server error.
C27_LimiterFailsOpen ==
  [][ (req.pc = "rate" /\ req'.pc # "rate")
      => /\ req'.response # 500
         /\ ~env.upstash => req'.pc = "validate" ]_vars

\* the invocation w returns in this step; response' is its response
Returns(w) == StepOf(w) /\ BagCardinality(inv') < BagCardinality(inv)

\* C28: an invocation of the delivery callback that returns an error
\* response leaves the reminder with lastError recorded; after a failed
\* sendSMS, with the adapter's error.
C28_ErrorsRecorded ==
  [][\A w \in InFlight :
       (Returns(w) /\ response'.code = 500)
       => /\ reminders'[w.rid].lastError # None
          /\ (w.pc = "update" /\ ~w.result.success)
               => reminders'[w.rid].lastError = w.result.error ]_vars

\* C29: an invocation of the delivery callback in which a store call
\* throws answers non-2xx, has changed nothing in the store, and has not
\* sent the SMS.
C29_StoreFaultSendsNothing ==
  [][\A w \in InFlight :
       (Returns(w) /\ storeFaults' > storeFaults)
       => /\ ~(response'.code >= 200 /\ response'.code < 300)
          /\ reminders' = reminders
          /\ ~w.result.success ]_vars

\* C30: a sendSMS that failed with an error carrying no failure code (a
\* timeout) is classified retryable, and with retry budget left the
\* handler does not move the reminder to FAILED.
C30_TimeoutRetryable ==
  [][\A w \in InFlight :
       ( /\ UpdatesScheduled(w)
         /\ ~w.result.success
         /\ w.result.error = ErrorMessage(NoCode)
         /\ w.reminder.retryCount + 1 < MAX_RETRIES )
       => /\ w.result.retryable
          /\ reminders'[w.rid].status # "FAILED" ]_vars

\* ---------------------------------------------------------------------
\* C31: sendSMS always returns one of three results.  A success carries a
\* message id and retryable = false; a failure carries an error and no
\* message id, and is retryable exactly when the transport rejected with a
\* numeric code on the allow-list 20003, 20429, 30002, 30003, 30004, 30006,
\* 30008; a failure with any other code, with no code, or from missing
\* configuration (the transport was never called) is not retryable.
C31_ThreeWayResult ==
  smsCall.called =>
    LET r == smsCall.result IN
    /\ r.success => /\ r.messageId # NoMessageId
                    /\ ~r.retryable
                    /\ r.error = None
    /\ ~r.success => /\ r.messageId = NoMessageId
                     /\ r.error # None
                     /\ r.retryable <=>
                          ( /\ smsCall.created
                            /\ smsCall.errorCode \in
                                 {20003, 20429, 30002, 30003, 30004, 30006, 30008} )
    /\ (~env.fromNumber \/ (env.nodeEnv # "development" /\ ~env.twilioCreds))
         => ~r.success /\ ~r.retryable /\ ~smsCall.created

\* a retryable failure has been returned
C31_Witness ==
  /\ smsCall.called
  /\ ~smsCall.result.success
  /\ smsCall.result.retryable
  /\ smsCall.errorCode = 30008

\* ---------------------------------------------------------------------
\* C32: with NODE_ENV = development, sendSMS returns a success for every
\* recipient and body and whatever the rest of the configuration is, and
\* does not call client.messages.create.
C32_DevAlwaysSucceeds ==
  (smsCall.called /\ env.nodeEnv = "development")
    => /\ smsCall.result.success
       /\ ~smsCall.created

\* ---------------------------------------------------------------------
\* C34: scheduleReminderJob publishes with a delay of max(0, runAt - now)
\* in whole seconds rounded down, so never a negative one, also when runAt
\* has passed by the time of the call; it always returns a result, and with
\* NEXT_PUBLIC_APP_URL unset that is a failure returned without calling
\* publishJSON.
C34_DelayNeverNegative ==
  jobCall.called =>
    LET left == Max(0, jobCall.runAt - jobCall.at) IN
    /\ jobCall.publishCalled
         => /\ jobCall.delay >= 0
            /\ jobCall.delay * 1000 <= left
            /\ left < (jobCall.delay + 1) * 1000
    /\ ~env.appUrl => /\ ~jobCall.publishCalled
                      /\ ~jobCall.result.success
    /\ jobCall.result.success => jobCall.publishCalled
    /\ ~jobCall.result.success => jobCall.result.error # None

\* a job has been published for a runAt that had already passed
C34_Witness ==
  /\ jobCall.called
  /\ jobCall.publishCalled
  /\ jobCall.result.success
  /\ jobCall.runAt < jobCall.at
  /\ jobCall.delay = 0

\* ---------------------------------------------------------------------
\* C33: with both signing keys configured, a request to the delivery
\* callback that does not pass signature verification never reaches the
\* handler: no invocation starts (so nothing is read from the store), no
\* send is made and no reminder changes, and no invocation in flight is for
\* such a request; with the keys not both configured, every such request
\* starts an invocation of the handler.
C33_SignatureGate ==
  [][ /\ posts' > posts
        => IF env.currentSigningKey /\ env.nextSigningKey
             THEN /\ inv' = inv
                  /\ reminders' = reminders
                  /\ sendCalls' = sendCalls
                  /\ ~(response'.code >= 200 /\ response'.code < 300)
             ELSE BagCardinality(inv') = BagCardinality(inv) + 1
      /\ (env.currentSigningKey /\ env.nextSigningKey)
           => \A w \in BagToSet(inv') : w.qstash ]_vars

\* an unsigned request has been turned away with the keys configured, after
\* a reminder was published
C33_Witness ==
  /\ env.currentSigningKey /\ env.nextSigningKey
  /\ posts > 0
  /\ response.code = 403
  /\ \E id \in Ids : reminders[id].status = "SCHEDULED" /\ jobs[id].enqueued

\* ---------------------------------------------------------------------
\* C35: whatever the interleaving of the invocations for a reminder, its
\* retryCount never decreases and, once the invocations have returned (no
\* store call having thrown), equals the number of sendSMS calls for it
\* that failed.
C35_CountsFailedSends ==
  [][\A id \in 1..Len(reminders) :
       /\ reminders'[id].retryCount >= reminders[id].retryCount
       /\ ( /\ storeFaults' = 0
            /\ \A w \in BagToSet(inv') : w.rid # id )
            => reminders'[id].retryCount = sendCalls'[id] - sendOks'[id] ]_vars
====
